---------------------------- MODULE Spec2Model ----------------------------
(***************************************************************************)
(* Funder-side channel proposal workflow of channeld                      *)
(* (src/src/channeld/automata/propose.rs).                                 *)
(*                                                                         *)
(* ChannelPropose::with and ChannelPropose::next are modelled as the two   *)
(* actions Initiate and Step.  The per-stage transition functions          *)
(* complete_proposed .. complete_locked are operators that take the event, *)
(* the runtime and the outcomes of the external calls made during the      *)
(* transition, and return the runtime as the function leaves it together   *)
(* with the function's result (Ok(stage), Err(error) or a panic).          *)
(***************************************************************************)
EXTENDS Integers, Sequences, FiniteSets, TLC

(* ----------------------------- bounds ---------------------------------- *)

\* number of failed next() calls after which the enclosing service stops
\* feeding events to the workflow
MaxRetries == 1

\* number of events the other services address to the channel while it
\* changes its identity
MaxEvents == 3

(* --------------------------- input domains ----------------------------- *)

Txids == {4, 5}
Vouts == {0, 1}
TempIds == {200}
FundingSats == {100000}

LocalKey == "local_funding_pubkey"
OtherKey == "other_pubkey"

Sources == {"Peer", "LnpBroker"}

Stages == {"Proposed", "Accepted", "Signing", "Funding", "Signed", "Funded", "Locked"}

NoStage == "-"

\* sighash flag appended to a DER signature inside partial_sigs
SighashAll == <<1>>

\* two well-formed DER encodings of an ECDSA signature (r, s)
DerSigA == <<48, 6, 2, 1, 1, 2, 1, 1>>
DerSigB == <<48, 6, 2, 1, 2, 2, 1, 3>>

\* byte strings a signer may store under a key of partial_sigs
SigValues ==
    { <<>>, <<1>>, <<222, 173>>, DerSigA, DerSigA \o SighashAll, DerSigB \o SighashAll }

\* partial_sigs maps of the first input of a PSBT
PartialSigs ==
    { <<>> }
    \cup { [k \in {OtherKey} |-> DerSigB \o SighashAll] }
    \cup { [k \in {LocalKey} |-> v] : v \in SigValues }

\* PSBTs: the txid of the unsigned transaction, the index of the funding
\* output, and the inputs with their partial signatures
FundingPsbts ==
    { [txid |-> t, vout |-> v, valid |-> TRUE] : t \in Txids, v \in Vouts }
    \cup { [txid |-> 4, vout |-> 0, valid |-> FALSE] }

\* (the signer returns the refund transaction, whose txid is its own)
SignedPsbts ==
    { [txid |-> t, inputs |-> <<[partial_sigs |-> p]>>] :
            t \in {5, 6}, p \in { [k \in {LocalKey} |-> DerSigA \o SighashAll] } }
    \cup { [txid |-> 6, inputs |-> <<[partial_sigs |-> p]>>] : p \in PartialSigs }
    \cup { [txid |-> 6, inputs |-> <<>>] }

\* BusMsg: peer-wire (Ln) and control-bus (Ctl) messages an event may carry
Messages ==
    { [bus |-> "Ln", kind |-> "AcceptChannel", valid |-> ok] : ok \in BOOLEAN }
    \cup { [bus |-> "Ln", kind |-> "FundingSigned", valid |-> ok] : ok \in BOOLEAN }
    \cup { [bus |-> "Ln", kind |-> "ChannelReady"] }
    \cup { [bus |-> "Ctl", kind |-> "FundingConstructed", psbt |-> p] : p \in FundingPsbts }
    \cup { [bus |-> "Ctl", kind |-> "Signed", psbt |-> p] : p \in SignedPsbts }
    \cup { [bus |-> "Ctl", kind |-> "FundingPublished"] }
    \cup { [bus |-> "Ctl", kind |-> "FundingMined"] }
    \cup { [bus |-> "Ctl", kind |-> "Timeout"] }

Events == { [message |-> m, source |-> s] : m \in Messages, s \in Sources }

\* outcomes of the calls into the bus made during one transition
\* (a transition stops at the first call that fails, so at most one does)
Envs ==
    { e \in [ident_ok : BOOLEAN, ctl_ok : BOOLEAN, p2p_ok : BOOLEAN] :
        Cardinality({f \in {"ident_ok", "ctl_ok", "p2p_ok"} : ~e[f]}) <= 1 }

Requests == { [funding_sat |-> f, valid |-> ok] : f \in FundingSats, ok \in BOOLEAN }

(* ------------------------------ state ---------------------------------- *)

VARIABLES
    stage,      \* ChannelPropose value held by the service, NoStage before with()
    channel,    \* runtime.channel
    identity,   \* runtime.identity()
    peerOut,    \* peer-wire messages sent so far
    ctlOut,     \* control-bus messages sent so far
    effects,    \* side effects of the last call, in the order they happened
    result,     \* what the last call returned
    pre,        \* stage, channel and identity on entry of the last call
    last,       \* event and bus outcomes of the last call
    hist,       \* what has been delivered to the workflow so far
    nerrs,      \* number of calls that returned an error
    rekey       \* the service, the broker and the bus while the identity changes

workflow == <<stage, channel, identity, peerOut, ctlOut, effects, result, pre, last, hist, nerrs>>

vars == <<workflow, rekey>>


(* ------------------------- results of a call --------------------------- *)

NoErr == [kind |-> "-", args |-> <<>>]

OkRes(state) == [tag |-> "Ok", state |-> state, err |-> NoErr]
NoneRes == [tag |-> "None", state |-> NoStage, err |-> NoErr]
ErrRes(e) == [tag |-> "Err", state |-> NoStage, err |-> e]
PanicRes(why) == [tag |-> "Panic", state |-> NoStage, err |-> [kind |-> why, args |-> <<>>]]
NoRes == [tag |-> "-", state |-> NoStage, err |-> NoErr]

\* automata::Error values
UnexpectedMessage(msg, lifecycle, source) ==
    [kind |-> "UnexpectedMessage", args |-> <<msg, lifecycle, source>>]
ChannelError == [kind |-> "Channel", args |-> <<>>]
FundingPsbtUnsigned(pubkey) == [kind |-> "FundingPsbtUnsigned", args |-> <<pubkey>>]
InvalidSig == [kind |-> "InvalidSig", args |-> <<>>]
EsbError == [kind |-> "Esb", args |-> <<>>]

Ret(rt, res) == [rt |-> rt, res |-> res]

(* --------------------- collaborators of the workflow ------------------- *)

RECURSIVE Xor(_, _)
\* bitwise exclusive or of two naturals
Xor(a, b) ==
    IF a = 0 THEN b
    ELSE IF b = 0 THEN a
    ELSE ((a + b) % 2) + 2 * Xor(a \div 2, b \div 2)

\* ChannelId::with: the funding txid combined with the funding output index
ChannelIdWith(funding_txid, funding_output_index) == Xor(funding_txid, funding_output_index)

\* ServiceId::Channel
ServiceChannel(id) == [service |-> "Channel", id |-> id]

\* Channel::update_from_peer: absorbs accept_channel or funding_signed, or
\* rejects it leaving the channel as it was
update_from_peer(rt, msg) ==
    IF ~msg.valid THEN [ok |-> FALSE, rt |-> rt]
    ELSE [ok |-> TRUE,
          rt |-> [rt EXCEPT
                    !.channel = IF msg.kind = "AcceptChannel"
                                THEN [@ EXCEPT !.remote_keys = TRUE]
                                ELSE [@ EXCEPT !.remote_sig = TRUE],
                    !.log = Append(@, "channel")]]

\* Channel::refund_tx: records the funding outpoint of the funding PSBT and
\* builds the refund transaction spending it
refund_tx(rt, funding_psbt) ==
    IF ~funding_psbt.valid THEN [ok |-> FALSE, rt |-> rt, psbt |-> <<>>]
    ELSE [ok |-> TRUE,
          rt |-> [rt EXCEPT
                    !.channel.funding = [@ EXCEPT !.txid = funding_psbt.txid,
                                                  !.output = funding_psbt.vout],
                    !.log = Append(@, "channel")],
          psbt |-> [spends |-> <<funding_psbt.txid, funding_psbt.vout>>,
                    inputs |-> <<[partial_sigs |-> <<>>]>>]]

\* Runtime::set_identity: re-registers the service on the bus under new_id
set_identity(rt, new_id, ok) ==
    IF ~ok THEN [ok |-> FALSE, rt |-> rt]
    ELSE [ok |-> TRUE,
          rt |-> [rt EXCEPT !.identity = new_id, !.log = Append(@, "identity")]]

\* Runtime::send_ctl: a control-bus message from the current identity
send_ctl(rt, dest, msg, ok) ==
    IF ~ok THEN [ok |-> FALSE, rt |-> rt]
    ELSE [ok |-> TRUE,
          rt |-> [rt EXCEPT
                    !.ctl = Append(@, [from |-> rt.identity, dest |-> dest, msg |-> msg]),
                    !.log = Append(@, "ctl")]]

\* Runtime::send_p2p: a peer-wire message to the remote peer
send_p2p(rt, msg, ok) ==
    IF ~ok THEN [ok |-> FALSE, rt |-> rt]
    ELSE [ok |-> TRUE,
          rt |-> [rt EXCEPT !.peer = Append(@, msg), !.log = Append(@, "p2p")]]

\* Signature::from_der: 0x30 len 0x02 rlen r 0x02 slen s, nothing after it
from_der(b) ==
    /\ Len(b) >= 8
    /\ b[1] = 48
    /\ b[2] = Len(b) - 2
    /\ b[3] = 2
    /\ LET rlen == b[4] IN
        /\ rlen >= 1
        /\ 6 + rlen < Len(b)
        /\ b[5] < 128
        /\ b[5 + rlen] = 2
        /\ LET slen == b[6 + rlen] IN
            /\ slen >= 1
            /\ 6 + rlen + slen = Len(b)
            /\ b[7 + rlen] < 128

(* ------------------------- state transitions --------------------------- *)

\* lnp::bolt::Lifecycle values
Lifecycle(name) == [lifecycle |-> name]

\* ChannelPropose::lifecycle with Signed and Funded exchanged
lifecycle_swapped(self) ==
    CASE self = "Proposed" -> Lifecycle("Proposed")
      [] self = "Accepted" -> Lifecycle("Accepted")
      [] self = "Signing" -> Lifecycle("Signing")
      [] self = "Funding" -> Lifecycle("Funding")
      [] self = "Signed" -> Lifecycle("Funded")
      [] self = "Funded" -> Lifecycle("Signed")
      [] self = "Locked" -> Lifecycle("Locked")

\* ChannelPropose::lifecycle
lifecycle(self) ==
    CASE self = "Proposed" -> Lifecycle("Proposed")
      [] self = "Accepted" -> Lifecycle("Accepted")
      [] self = "Signing" -> Lifecycle("Signing")
      [] self = "Funding" -> Lifecycle("Funding")
      [] self = "Signed" -> Lifecycle("Signed")
      [] self = "Funded" -> Lifecycle("Funded")
      [] self = "Locked" -> Lifecycle("Locked")

\* the service records the lifecycle of the stage a call returned in the
\* channel
set_lifecycle(chan, state) == [chan EXCEPT !.lifecycle = lifecycle(state)]

\* value of Channel::temp_channel_id() when the channel has no temporary id
NoTempId == 0

complete_proposed(event, runtime, env) ==
    IF event.message.kind # "AcceptChannel"
    THEN Ret(runtime, ErrRes(UnexpectedMessage(event.message, Lifecycle("Proposed"), event.source)))
    ELSE LET upd == update_from_peer(runtime, event.message) IN
         IF ~upd.ok THEN Ret(upd.rt, ErrRes(ChannelError))
         ELSE LET fund_channel == [script_pubkey |-> <<LocalKey, upd.rt.channel.remote_keys>>,
                                   feerate_per_kw |-> "None",
                                   amount |-> upd.rt.channel.funding.amount]
                  sent == send_ctl(upd.rt, "LnpBroker",
                                   [kind |-> "ConstructFunding", fund |-> fund_channel],
                                   env.ctl_ok)
              IN IF ~sent.ok THEN Ret(sent.rt, ErrRes(EsbError))
                 ELSE Ret(sent.rt, OkRes("Accepted"))

\* complete_accepted taking the permanent identity as soon as the funding
\* outpoint is known
complete_accepted_early_swap(event, runtime, env) ==
    IF event.message.kind # "FundingConstructed"
    THEN Ret(runtime, ErrRes(UnexpectedMessage(event.message, Lifecycle("Accepted"), event.source)))
    ELSE LET refund == refund_tx(runtime, event.message.psbt) IN
         IF ~refund.ok THEN Ret(refund.rt, ErrRes(ChannelError))
         ELSE LET funding == refund.rt.channel.funding
                  new_id == ServiceChannel(ChannelIdWith(funding.txid, funding.output))
                  set == set_identity(refund.rt, new_id, env.ident_ok)
              IN IF ~set.ok THEN Ret(set.rt, PanicRes("unrecoverable ZMQ failure"))
                 ELSE LET sent == send_ctl(set.rt, "Signer",
                                           [kind |-> "Sign", psbt |-> refund.psbt],
                                           env.ctl_ok)
                      IN IF ~sent.ok THEN Ret(sent.rt, ErrRes(EsbError))
                         ELSE Ret(sent.rt, OkRes("Signing"))

complete_accepted(event, runtime, env) ==
    IF event.message.kind # "FundingConstructed"
    THEN Ret(runtime, ErrRes(UnexpectedMessage(event.message, Lifecycle("Accepted"), event.source)))
    ELSE LET refund == refund_tx(runtime, event.message.psbt) IN
         IF ~refund.ok THEN Ret(refund.rt, ErrRes(ChannelError))
         ELSE LET sent == send_ctl(refund.rt, "Signer",
                                   [kind |-> "Sign", psbt |-> refund.psbt], env.ctl_ok)
              IN IF ~sent.ok THEN Ret(sent.rt, ErrRes(EsbError))
                 ELSE Ret(sent.rt, OkRes("Signing"))

\* extract_signature without the DER check of the stored bytes
extract_signature_unparsed(refund_psbt, funding_pubkey) ==
    IF Len(refund_psbt.inputs) = 0
    THEN [tag |-> "Panic", why |-> "BOLT commitment always has a single input", sig |-> <<>>]
    ELSE LET partial_sigs == refund_psbt.inputs[1].partial_sigs IN
         IF funding_pubkey \notin DOMAIN partial_sigs
         THEN [tag |-> "Unsigned", why |-> "", sig |-> <<>>]
         ELSE LET signature == partial_sigs[funding_pubkey] IN
              IF Len(signature) = 0
              THEN [tag |-> "Panic", why |-> "signature.len() - 1", sig |-> <<>>]
              ELSE [tag |-> "Ok", why |-> "",
                    sig |-> SubSeq(signature, 1, Len(signature) - 1)]

\* complete_signing, the signature of the local funding key in the first
\* input of the signed refund PSBT, without its sighash byte
extract_signature(refund_psbt, funding_pubkey) ==
    IF Len(refund_psbt.inputs) = 0
    THEN [tag |-> "Panic", why |-> "BOLT commitment always has a single input", sig |-> <<>>]
    ELSE LET partial_sigs == refund_psbt.inputs[1].partial_sigs IN
         IF funding_pubkey \notin DOMAIN partial_sigs
         THEN [tag |-> "Unsigned", why |-> "", sig |-> <<>>]
         ELSE LET signature == partial_sigs[funding_pubkey] IN
              IF Len(signature) = 0
              THEN [tag |-> "Panic", why |-> "signature.len() - 1", sig |-> <<>>]
              ELSE LET der == SubSeq(signature, 1, Len(signature) - 1) IN
                   IF from_der(der)
                   THEN [tag |-> "Ok", why |-> "", sig |-> der]
                   ELSE [tag |-> "Invalid", why |-> "", sig |-> <<>>]

\* compose_funding_created taking the txid of the PSBT the signer returned
compose_funding_created_signed_txid(chan, refund_psbt, signature) ==
    [kind |-> "FundingCreated",
     temporary_channel_id |-> chan.temp_channel_id,
     funding_txid |-> refund_psbt.txid,
     funding_output_index |-> chan.funding.output,
     signature |-> signature]

\* complete_signing, the funding_created message
compose_funding_created(chan, refund_psbt, signature) ==
    [kind |-> "FundingCreated",
     temporary_channel_id |-> chan.temp_channel_id,
     funding_txid |-> chan.funding.txid,
     funding_output_index |-> chan.funding.output,
     signature |-> signature]

\* change_identity going on when the bus refuses the new identity
change_identity_unchecked(runtime, funding_txid, funding_output_index, env) ==
    LET new_id == ServiceChannel(ChannelIdWith(funding_txid, funding_output_index))
        set == set_identity(runtime, new_id, env.ident_ok)
    IN [panic |-> FALSE, rt |-> set.rt]

\* complete_signing, the switch of the service to the permanent channel id
change_identity(runtime, funding_txid, funding_output_index, env) ==
    LET new_id == ServiceChannel(ChannelIdWith(funding_txid, funding_output_index))
        set == set_identity(runtime, new_id, env.ident_ok)
    IN [panic |-> ~set.ok, rt |-> set.rt]

\* announce_funding writing to the peer before the broker
announce_funding_peer_first(runtime, funding_created, env) ==
    LET sent == send_p2p(runtime, funding_created, env.p2p_ok) IN
    IF ~sent.ok THEN Ret(sent.rt, ErrRes(EsbError))
    ELSE LET hello == send_ctl(sent.rt, "LnpBroker", [kind |-> "Hello"], env.ctl_ok) IN
         IF ~hello.ok THEN Ret(hello.rt, ErrRes(EsbError))
         ELSE Ret(hello.rt, OkRes("Funding"))

\* complete_signing, hello to the broker and funding_created to the peer
announce_funding(runtime, funding_created, env) ==
    LET hello == send_ctl(runtime, "LnpBroker", [kind |-> "Hello"], env.ctl_ok) IN
    IF ~hello.ok THEN Ret(hello.rt, ErrRes(EsbError))
    ELSE LET sent == send_p2p(hello.rt, funding_created, env.p2p_ok) IN
         IF ~sent.ok THEN Ret(sent.rt, ErrRes(EsbError))
         ELSE Ret(sent.rt, OkRes("Funding"))

complete_signing(event, runtime, env) ==
    IF event.message.kind # "Signed"
    THEN Ret(runtime, ErrRes(UnexpectedMessage(event.message, Lifecycle("Signing"), event.source)))
    ELSE LET refund_psbt == event.message.psbt
             chan == runtime.channel
             funding_pubkey == chan.funding_pubkey
             signature == extract_signature(refund_psbt, funding_pubkey)
         IN
         IF signature.tag = "Panic" THEN Ret(runtime, PanicRes(signature.why))
         ELSE IF signature.tag = "Unsigned"
         THEN Ret(runtime, ErrRes(FundingPsbtUnsigned(funding_pubkey)))
         ELSE IF signature.tag = "Invalid" THEN Ret(runtime, ErrRes(InvalidSig))
         ELSE IF chan.temp_channel_id = NoTempId
         THEN Ret(runtime,
                  PanicRes("channel at funding stage must have temporary channel id"))
         ELSE LET funding_created == compose_funding_created(chan, refund_psbt, signature.sig)
                  swap == change_identity(runtime, chan.funding.txid, chan.funding.output, env)
              IN IF swap.panic THEN Ret(swap.rt, PanicRes("unrecoverable ZMQ failure"))
                 ELSE announce_funding(swap.rt, funding_created, env)

\* complete_funding dropping the verdict of update_from_peer
complete_funding_unchecked(event, runtime, env) ==
    IF event.message.kind # "FundingSigned"
    THEN Ret(runtime, ErrRes(UnexpectedMessage(event.message, Lifecycle("Funding"), event.source)))
    ELSE LET upd == update_from_peer(runtime, event.message)
             sent == send_ctl(upd.rt, "LnpBroker", [kind |-> "PublishFunding"], env.ctl_ok)
         IN IF ~sent.ok THEN Ret(sent.rt, ErrRes(EsbError))
            ELSE Ret(sent.rt, OkRes("Signed"))

complete_funding(event, runtime, env) ==
    IF event.message.kind # "FundingSigned"
    THEN Ret(runtime, ErrRes(UnexpectedMessage(event.message, Lifecycle("Funding"), event.source)))
    ELSE LET upd == update_from_peer(runtime, event.message) IN
         IF ~upd.ok THEN Ret(upd.rt, ErrRes(ChannelError))
         ELSE LET sent == send_ctl(upd.rt, "LnpBroker", [kind |-> "PublishFunding"],
                                   env.ctl_ok)
              IN IF ~sent.ok THEN Ret(sent.rt, ErrRes(EsbError))
                 ELSE Ret(sent.rt, OkRes("Signed"))

\* complete_signed telling the peer channel_ready as soon as the funding is
\* published
complete_signed_early_ready(event, runtime, env) ==
    IF event.message.kind # "FundingPublished"
    THEN Ret(runtime, ErrRes(UnexpectedMessage(event.message, Lifecycle("Signed"), event.source)))
    ELSE LET txid == runtime.channel.funding.txid
             sent == send_ctl(runtime, "Chain", [kind |-> "Track", txid |-> txid],
                              env.ctl_ok)
         IN IF ~sent.ok THEN Ret(sent.rt, ErrRes(EsbError))
            ELSE LET ready == send_p2p(sent.rt, [kind |-> "ChannelReady"], env.p2p_ok) IN
                 IF ~ready.ok THEN Ret(ready.rt, ErrRes(EsbError))
                 ELSE Ret(ready.rt, OkRes("Funded"))

\* complete_signed returning the stage after the next one
complete_signed_skips(event, runtime, env) ==
    IF event.message.kind # "FundingPublished"
    THEN Ret(runtime, ErrRes(UnexpectedMessage(event.message, Lifecycle("Signed"), event.source)))
    ELSE LET txid == runtime.channel.funding.txid
             sent == send_ctl(runtime, "Chain", [kind |-> "Track", txid |-> txid],
                              env.ctl_ok)
         IN IF ~sent.ok THEN Ret(sent.rt, ErrRes(EsbError))
            ELSE Ret(sent.rt, OkRes("Locked"))

\* complete_signed asking the broker, not the chain watcher, to track
complete_signed_track_to_broker(event, runtime, env) ==
    IF event.message.kind # "FundingPublished"
    THEN Ret(runtime, ErrRes(UnexpectedMessage(event.message, Lifecycle("Signed"), event.source)))
    ELSE LET txid == runtime.channel.funding.txid
             sent == send_ctl(runtime, "LnpBroker", [kind |-> "Track", txid |-> txid],
                              env.ctl_ok)
         IN IF ~sent.ok THEN Ret(sent.rt, ErrRes(EsbError))
            ELSE Ret(sent.rt, OkRes("Funded"))

\* complete_signed looking at the kind of the event after the send
complete_signed_late_check(event, runtime, env) ==
    LET txid == runtime.channel.funding.txid
        sent == send_ctl(runtime, "Chain", [kind |-> "Track", txid |-> txid], env.ctl_ok)
    IN IF ~sent.ok THEN Ret(sent.rt, ErrRes(EsbError))
       ELSE IF event.message.kind # "FundingPublished"
       THEN Ret(sent.rt,
                ErrRes(UnexpectedMessage(event.message, Lifecycle("Signed"), event.source)))
       ELSE Ret(sent.rt, OkRes("Funded"))

complete_signed(event, runtime, env) ==
    IF event.message.kind # "FundingPublished"
    THEN Ret(runtime, ErrRes(UnexpectedMessage(event.message, Lifecycle("Signed"), event.source)))
    ELSE LET txid == runtime.channel.funding.txid
             sent == send_ctl(runtime, "Chain", [kind |-> "Track", txid |-> txid],
                              env.ctl_ok)
         IN IF ~sent.ok THEN Ret(sent.rt, ErrRes(EsbError))
            ELSE Ret(sent.rt, OkRes("Funded"))

\* todo!()
complete_funded(event, runtime, env) ==
    Ret(runtime, PanicRes("not yet implemented"))

\* todo!()
complete_locked(event, runtime, env) ==
    Ret(runtime, PanicRes("not yet implemented"))

\* ChannelPropose::next
next(self, event, runtime, env) ==
    CASE self = "Proposed" -> complete_proposed(event, runtime, env)
      [] self = "Accepted" -> complete_accepted(event, runtime, env)
      [] self = "Signing" -> complete_signing(event, runtime, env)
      [] self = "Funding" -> complete_funding(event, runtime, env)
      [] self = "Signed" -> complete_signed(event, runtime, env)
      [] self = "Funded" -> complete_funded(event, runtime, env)
      [] self = "Locked" ->
            LET done == complete_locked(event, runtime, env) IN
            IF done.res.tag = "Ok" THEN Ret(done.rt, NoneRes) ELSE done

\* Channel::compose_open_channel: validates the request, stores the
\* parameters in the channel and returns the open_channel message
compose_open_channel(rt, request) ==
    IF ~request.valid THEN [ok |-> FALSE, rt |-> rt, msg |-> <<>>]
    ELSE [ok |-> TRUE,
          rt |-> [rt EXCEPT !.channel.funding.amount = request.funding_sat,
                            !.log = Append(@, "channel")],
          msg |-> [kind |-> "OpenChannel",
                   temporary_channel_id |-> rt.channel.temp_channel_id,
                   funding_satoshis |-> request.funding_sat]]

\* ChannelPropose::with dropping the result of send_p2p
with_unchecked_send(runtime, request, env) ==
    LET open_channel == compose_open_channel(runtime, request) IN
    IF ~open_channel.ok THEN Ret(open_channel.rt, ErrRes(ChannelError))
    ELSE LET sent == send_p2p(open_channel.rt, open_channel.msg, env.p2p_ok) IN
         Ret(sent.rt, OkRes("Proposed"))

\* ChannelPropose::with
with(runtime, request, env) ==
    LET open_channel == compose_open_channel(runtime, request) IN
    IF ~open_channel.ok THEN Ret(open_channel.rt, ErrRes(ChannelError))
    ELSE LET sent == send_p2p(open_channel.rt, open_channel.msg, env.p2p_ok) IN
         IF ~sent.ok THEN Ret(sent.rt, ErrRes(EsbError))
         ELSE Ret(sent.rt, OkRes("Proposed"))

(* ------------------- what the workflow has been given ------------------ *)

\* the event each stage waits for
Expected(s) ==
    CASE s = "Proposed" -> "AcceptChannel"
      [] s = "Accepted" -> "FundingConstructed"
      [] s = "Signing" -> "Signed"
      [] s = "Funding" -> "FundingSigned"
      [] s = "Signed" -> "FundingPublished"
      [] s = "Funded" -> "FundingMined"
      [] s = "Locked" -> "ChannelReady"

\* the first input of the PSBT carries, under the local funding key, a
\* well-formed DER signature followed by one sighash byte
SignedByLocalKey(psbt) ==
    /\ Len(psbt.inputs) >= 1
    /\ LocalKey \in DOMAIN psbt.inputs[1].partial_sigs
    /\ \E der \in {DerSigA, DerSigB}, flag \in 0..255 :
            psbt.inputs[1].partial_sigs[LocalKey] = der \o <<flag>>

\* the event is the expected one of the stage and its content is acceptable
WellFormed(s, msg) ==
    /\ msg.kind = Expected(s)
    /\ msg.kind \in {"AcceptChannel", "FundingSigned"} => msg.valid
    /\ msg.kind = "FundingConstructed" => msg.psbt.valid
    /\ msg.kind = "Signed" => SignedByLocalKey(msg.psbt)

AllOk(env) == env.ident_ok /\ env.ctl_ok /\ env.p2p_ok

NoEvent == [message |-> [bus |-> "-", kind |-> "-"], source |-> "-"]

NoRequest == [funding_sat |-> 0, valid |-> FALSE]

\* the identity of the service before the switch
TemporaryId == ServiceChannel(channel.temp_channel_id)

\* number of effects of one kind that a call had before it changed the identity
SentBeforeSwap(log, effect) ==
    LET at == CHOOSE i \in DOMAIN log : log[i] = "identity" /\ \A j \in 1..(i - 1) : log[j] # "identity"
    IN Cardinality({ j \in 1..(at - 1) : log[j] = effect })

(* ------------------------------ actions -------------------------------- *)

Init ==
    /\ stage = NoStage
    /\ channel \in { [temp_channel_id |-> t,
                      funding_pubkey |-> LocalKey,
                      remote_keys |-> FALSE,
                      remote_sig |-> FALSE,
                      lifecycle |-> Lifecycle("Initial"),
                      funding |-> [txid |-> 0, output |-> 0, amount |-> 0]] : t \in TempIds }
    /\ identity = ServiceChannel(channel.temp_channel_id)
    /\ peerOut = <<>>
    /\ ctlOut = <<>>
    /\ effects = <<>>
    /\ result = NoRes
    /\ pre = [stage |-> stage, channel |-> channel, identity |-> identity,
              peerOut |-> peerOut, ctlOut |-> ctlOut]
    /\ last = [call |-> "-", event |-> NoEvent, request |-> NoRequest,
               env |-> [ident_ok |-> TRUE, ctl_ok |-> TRUE, p2p_ok |-> TRUE]]
    /\ hist = [constructed |-> 0, signed |-> FALSE, funding_signed |-> FALSE, happy |-> TRUE,
               swaps |-> 0, peer_at_swap |-> 0, ctl_at_swap |-> 0]
    /\ nerrs = 0
    /\ rekey = [pc |-> "signing",
                socket |-> identity,
                table |-> identity,
                bus |-> <<>>,
                sent |-> 0,
                delivered |-> 0,
                lost |-> 0]

Runtime == [channel |-> channel, identity |-> identity, peer |-> peerOut, ctl |-> ctlOut, log |-> <<>>]

\* the runtime as a call left it, and what the call returned
Commit(out) ==
    /\ channel' = IF out.res.tag = "Ok"
                  THEN set_lifecycle(out.rt.channel, out.res.state)
                  ELSE out.rt.channel
    /\ identity' = out.rt.identity
    /\ peerOut' = out.rt.peer
    /\ ctlOut' = out.rt.ctl
    /\ effects' = out.rt.log
    /\ result' = out.res
    /\ pre' = [stage |-> stage, channel |-> channel, identity |-> identity,
               peerOut |-> peerOut, ctlOut |-> ctlOut]
    /\ nerrs' = IF out.res.tag = "Err" THEN nerrs + 1 ELSE nerrs
    /\ UNCHANGED rekey

\* the service opens a channel: ChannelPropose::with
Initiate ==
    /\ stage = NoStage
    /\ result.tag \in {"-", "Err"}
    /\ nerrs <= MaxRetries
    /\ \E request \in Requests, env \in Envs :
          LET out == with(Runtime, request, env) IN
          /\ Commit(out)
          /\ stage' = IF out.res.tag = "Ok" THEN out.res.state ELSE stage
          /\ last' = [call |-> "with", event |-> NoEvent, request |-> request, env |-> env]
          /\ hist' = [hist EXCEPT !.happy = request.valid /\ AllOk(env)]

\* the service hands an event to the workflow: ChannelPropose::next
Step ==
    /\ stage \in Stages
    /\ result.tag # "Panic"
    /\ nerrs <= MaxRetries
    /\ \E event \in Events, env \in Envs :
          LET out == next(stage, event, Runtime, env)
              msg == event.message
          IN
          /\ Commit(out)
          /\ stage' = CASE out.res.tag = "Ok" -> out.res.state
                        [] out.res.tag = "None" -> NoStage
                        [] OTHER -> stage
          /\ last' = [call |-> "next", event |-> event, request |-> NoRequest, env |-> env]
          /\ hist' = [constructed |->
                          IF stage = "Accepted" /\ msg.kind = "FundingConstructed"
                             /\ out.res.tag = "Ok"
                          THEN msg.psbt.txid ELSE hist.constructed,
                      signed |->
                          \/ hist.signed
                          \/ stage = "Signing" /\ msg.kind = "Signed"
                             /\ SignedByLocalKey(msg.psbt),
                      funding_signed |->
                          \/ hist.funding_signed
                          \/ stage = "Funding" /\ msg.kind = "FundingSigned" /\ msg.valid,
                      happy |-> hist.happy /\ WellFormed(stage, msg) /\ AllOk(env),
                      swaps |-> IF out.rt.identity # identity
                                THEN hist.swaps + 1 ELSE hist.swaps,
                      peer_at_swap |->
                          IF out.rt.identity # identity /\ hist.swaps = 0
                          THEN Len(peerOut) + SentBeforeSwap(out.rt.log, "p2p")
                          ELSE hist.peer_at_swap,
                      ctl_at_swap |->
                          IF out.rt.identity # identity /\ hist.swaps = 0
                          THEN Len(ctlOut) + SentBeforeSwap(out.rt.log, "ctl")
                          ELSE hist.ctl_at_swap]

Next == Initiate \/ Step

Spec == Init /\ [][Next]_vars

(* ------------- the change of identity as the bus sees it --------------- *)

\* complete_signing reaches set_identity: the service is connected to the
\* bus under the permanent id from now on
RekeySetIdentity ==
    /\ rekey.pc = "signing"
    /\ \E funding_txid \in Txids, funding_output_index \in Vouts :
          LET new_id == ServiceChannel(ChannelIdWith(funding_txid, funding_output_index)) IN
          rekey' = [rekey EXCEPT !.pc = "swapped", !.socket = new_id]
    /\ UNCHANGED workflow

\* complete_signing sends hello to the broker under the new identity
RekeyHello ==
    /\ rekey.pc = "swapped"
    /\ rekey' = [rekey EXCEPT !.pc = "announced",
                              !.bus = Append(@, [kind |-> "Hello", id |-> rekey.socket])]
    /\ UNCHANGED workflow

\* another service addresses an event to the channel, under the temporary
\* id or, once it exists, under the permanent id
RekeySend ==
    /\ rekey.sent < MaxEvents
    /\ \E to \in {TemporaryId, rekey.socket} :
          rekey' = [rekey EXCEPT !.sent = @ + 1,
                                 !.bus = Append(@, [kind |-> "Event", id |-> to])]
    /\ UNCHANGED workflow

\* the broker handles the next message on the bus: hello updates its routing
\* map, an event is forwarded to the service connected under the id the map
\* holds for its address, or dropped when there is none
RekeyBroker ==
    /\ rekey.bus # <<>>
    /\ LET m == Head(rekey.bus) IN
       rekey' = IF m.kind = "Hello"
                THEN [rekey EXCEPT !.bus = Tail(@), !.table = m.id]
                ELSE IF m.id = rekey.table /\ rekey.table = rekey.socket
                THEN [rekey EXCEPT !.bus = Tail(@), !.delivered = @ + 1]
                ELSE [rekey EXCEPT !.bus = Tail(@), !.lost = @ + 1]
    /\ UNCHANGED workflow

NextRekey == RekeySetIdentity \/ RekeyHello \/ RekeySend \/ RekeyBroker

SpecRekey == Init /\ [][NextRekey]_vars

(* ---------------------- observations on a state ------------------------ *)

PeerKinds == [i \in DOMAIN peerOut |-> peerOut[i].kind]

FundingCreatedSent == { peerOut[i] : i \in { j \in DOMAIN peerOut : peerOut[j].kind = "FundingCreated" } }

PublishFundingSent == \E i \in DOMAIN ctlOut : ctlOut[i].msg.kind = "PublishFunding"

TemporaryIdentity == ServiceChannel(channel.temp_channel_id)

PermanentIdentity == ServiceChannel(ChannelIdWith(channel.funding.txid, channel.funding.output))

\* the last call was next() in stage s
LastNextIn(s) == last.call = "next" /\ pre.stage = s

\* the last call was next() in Signing with a refund PSBT signed by the local key
LastSignedValid ==
    /\ LastNextIn("Signing")
    /\ last.event.message.kind = "Signed"
    /\ SignedByLocalKey(last.event.message.psbt)

\* position of a kind of side effect in the order of a transition
Rank(effect) ==
    CASE effect = "channel" -> 1
      [] effect = "identity" -> 2
      [] effect = "ctl" -> 3
      [] effect = "p2p" -> 4

(* ------------------------------ claims --------------------------------- *)

\* C1: in each of the seven stages, an event that is not the expected one of
\* the stage makes next() return UnexpectedMessage carrying that event, the
\* stage and the source of the event.
C1_UnexpectedEventRejected ==
    (last.call = "next" /\ last.event.message.kind # Expected(pre.stage))
        => /\ result.tag = "Err"
           /\ result.err.kind = "UnexpectedMessage"
           /\ result.err.args = <<last.event.message, lifecycle(pre.stage), last.event.source>>

\* C2: when next() returns an error, the stage, the channel and the identity
\* of the service are what they were before the call.
C2_ErrorLeavesStateUnchanged ==
    (last.call = "next" /\ result.tag = "Err")
        => /\ stage = pre.stage
           /\ channel = pre.channel
           /\ identity = pre.identity

C4_HappyPathCompletes ==
    (hist.happy /\ last.call = "next")
        => /\ result.tag \in {"Ok", "None"}
           /\ result.tag = "None" <=> pre.stage = "Locked"

\* C5: the identity is the temporary id in Proposed, Accepted and Signing and
\* the permanent id of the funding outpoint in Funding, Signed, Funded and
\* Locked, and no call turns a permanent identity back into the temporary one.
C5_IdentityFollowsStage ==
    /\ stage \in {"Proposed", "Accepted", "Signing"} => identity = TemporaryIdentity
    /\ stage \in {"Funding", "Signed", "Funded", "Locked"} => identity = PermanentIdentity
    /\ pre.identity # TemporaryIdentity => identity # TemporaryIdentity

\* C6: funding_created has been sent only if the workflow, in Signing, was
\* given a signed event whose first input carries a well-formed signature of
\* the local funding key, and a signed event without one sends nothing to the
\* peer.
C6_FundingCreatedOnlyAfterLocalSignature ==
    /\ FundingCreatedSent # {} => hist.signed
    /\ (LastNextIn("Signing") /\ ~LastSignedValid)
            => (peerOut = pre.peerOut /\ result.tag # "Ok")

C6_Witness ==
    /\ FundingCreatedSent # {}
    /\ LastSignedValid
    /\ result.tag = "Ok"

\* C7: publish_funding has been sent only if the workflow, in Funding, was
\* given a funding_signed that update_from_peer accepted.
C7_PublishOnlyAfterFundingSigned ==
    PublishFundingSent => hist.funding_signed

C7_Witness ==
    /\ PublishFundingSent
    /\ LastNextIn("Funding")
    /\ last.event.message.kind = "FundingSigned"
    /\ result.tag = "Ok"

\* C8: the funding_txid of every funding_created sent is the txid of the
\* funding PSBT of the funding_constructed event on which the workflow left
\* Accepted, whatever the txid of the PSBT the signer returned.
C8_FundingCreatedCarriesFundingTxid ==
    \A m \in FundingCreatedSent : m.funding_txid = hist.constructed

C8_Witness ==
    /\ LastSignedValid
    /\ result.tag = "Ok"
    /\ \E m \in FundingCreatedSent :
            /\ m.funding_txid = hist.constructed
            /\ m.funding_txid # last.event.message.psbt.txid

C10_SideEffectOrder ==
    /\ \A i, j \in DOMAIN effects : i < j => Rank(effects[i]) <= Rank(effects[j])
    /\ (\E i \in DOMAIN effects : effects[i] = "identity") => LastNextIn("Signing")
    /\ (LastNextIn("Signing") /\ result.tag = "Ok")
            => /\ effects = <<"identity", "ctl", "p2p">>
               /\ ctlOut[Len(ctlOut)].msg.kind = "Hello"
               /\ ctlOut[Len(ctlOut)].from = PermanentIdentity
               /\ peerOut[Len(peerOut)].kind = "FundingCreated"

C10_Witness ==
    /\ LastNextIn("Signing")
    /\ result.tag = "Ok"
    /\ effects = <<"identity", "ctl", "p2p">>
    /\ ctlOut[Len(ctlOut)].from # pre.identity

NewPeer == SubSeq(peerOut, Len(pre.peerOut) + 1, Len(peerOut))

\* the control-bus messages the last call sent
NewCtl == SubSeq(ctlOut, Len(pre.ctlOut) + 1, Len(ctlOut))

\* nothing sent earlier was taken back or changed by the last call
OutputsKept ==
    /\ Len(pre.peerOut) <= Len(peerOut)
    /\ SubSeq(peerOut, 1, Len(pre.peerOut)) = pre.peerOut
    /\ Len(pre.ctlOut) <= Len(ctlOut)
    /\ SubSeq(ctlOut, 1, Len(pre.ctlOut)) = pre.ctlOut

\* C12: a call sends at most one peer-wire message: open_channel from
\* initiate(), funding_created from Signing, channel_ready from Funded or
\* Locked, and nothing from Proposed, Accepted, Funding and Signed.
C12_OnePeerMessagePerCall ==
    /\ OutputsKept
    /\ Len(NewPeer) <= 1
    /\ Len(NewPeer) = 1 =>
          \/ last.call = "with" /\ NewPeer[1].kind = "OpenChannel"
          \/ LastNextIn("Signing") /\ NewPeer[1].kind = "FundingCreated"
          \/ last.call = "next" /\ pre.stage \in {"Funded", "Locked"}
                /\ NewPeer[1].kind = "ChannelReady"

C12_Witness ==
    /\ LastNextIn("Signed")
    /\ result.tag = "Ok"
    /\ NewPeer = <<>>
    /\ PeerKinds = <<"OpenChannel", "FundingCreated">>

\* the peer-wire message names the temporary channel id
PeerCarriesTempId(m) ==
    /\ "temporary_channel_id" \in DOMAIN m
    /\ m.temporary_channel_id = channel.temp_channel_id

\* the control-bus message was sent under, or names, the temporary channel id
CtlCarriesTempId(c) ==
    \/ c.from = TemporaryIdentity
    \/ "temporary_channel_id" \in DOMAIN c.msg /\ c.msg.temporary_channel_id = channel.temp_channel_id

\* the identity changes at most once, in a Signing call, from the temporary
\* to the permanent id
SwitchOnceInSigning ==
    /\ hist.swaps <= 1
    /\ identity # pre.identity
          => /\ LastNextIn("Signing")
             /\ pre.identity = TemporaryIdentity
             /\ identity = PermanentIdentity

\* C13 as stated: the identity is switched at most once and only in Signing,
\* and no message sent after the switch, funding_created included, carries
\* the temporary channel id.
C13_NoTempIdAfterSwitch ==
    /\ SwitchOnceInSigning
    /\ hist.swaps > 0 =>
          /\ \A i \in (hist.ctl_at_swap + 1)..Len(ctlOut) : ~CtlCarriesTempId(ctlOut[i])
          /\ \A i \in (hist.peer_at_swap + 1)..Len(peerOut) : ~PeerCarriesTempId(peerOut[i])

\* C13: the identity is switched at most once and only in Signing; after the
\* switch no control-bus message is sent under or names the temporary id, and
\* the only peer-wire message naming it is funding_created, in its
\* temporary_channel_id field.
C13_OnlyFundingCreatedNamesTempId ==
    /\ SwitchOnceInSigning
    /\ hist.swaps > 0 =>
          /\ \A i \in (hist.ctl_at_swap + 1)..Len(ctlOut) : ~CtlCarriesTempId(ctlOut[i])
          /\ \A i \in (hist.peer_at_swap + 1)..Len(peerOut) :
                PeerCarriesTempId(peerOut[i]) => peerOut[i].kind = "FundingCreated"

C13_Witness ==
    /\ hist.swaps = 1
    /\ stage = "Signed"
    /\ hist.ctl_at_swap < Len(ctlOut)
    /\ \E i \in (hist.peer_at_swap + 1)..Len(peerOut) :
            peerOut[i].kind = "FundingCreated" /\ PeerCarriesTempId(peerOut[i])

\* C14: while the service changes its identity, no event addressed to the
\* channel, under either id, fails to be routed to it.
C14_NoEventLost ==
    rekey.lost = 0

\* C15: initiate() returns Proposed only after having sent exactly one
\* open_channel; when compose_open_channel rejects the request it returns an
\* error and sends nothing; when the send fails it returns an error and no
\* stage.
C15_InitiateSendsOpenChannel ==
    last.call = "with" =>
        /\ result.tag = "Ok" <=> stage = "Proposed"
        /\ result.tag = "Ok" => (result.state = "Proposed" /\ PeerKinds = <<"OpenChannel">>)
        /\ ~last.request.valid
              => (result.tag = "Err" /\ result.err = ChannelError /\ peerOut = <<>>)
        /\ (last.request.valid /\ ~last.env.p2p_ok)
              => (result.tag = "Err" /\ result.err = EsbError /\ stage = NoStage)

C15_Witness ==
    /\ last.call = "with"
    /\ result.tag = "Ok"
    /\ stage = "Proposed"
    /\ PeerKinds = <<"OpenChannel">>

\* the last call was next() in Signing with a signed event that has a first input
LastSignedWithInput ==
    /\ LastNextIn("Signing")
    /\ last.event.message.kind = "Signed"
    /\ Len(last.event.message.psbt.inputs) >= 1

HelloSent == \E i \in DOMAIN ctlOut : ctlOut[i].msg.kind = "Hello"

\* C16: in Signing, a signed event whose first input has no partial signature
\* of the local funding key makes next() return FundingPsbtUnsigned with
\* that key, and then the identity is the temporary id and neither hello nor
\* funding_created has been sent.
C16_UnsignedPsbtRejected ==
    (LastSignedWithInput
     /\ LocalKey \notin DOMAIN last.event.message.psbt.inputs[1].partial_sigs)
        => /\ result.tag = "Err"
           /\ result.err = FundingPsbtUnsigned(LocalKey)
           /\ identity = TemporaryIdentity
           /\ ~HelloSent
           /\ FundingCreatedSent = {}

\* C17: in Signing, a signed event whose entry for the local funding key,
\* without its last byte, is no well-formed DER signature (whatever its
\* length, zero included) makes next() return InvalidSig, without a panic,
\* an identity swap or a message.
C17_MalformedSignatureRejected ==
    (LastSignedWithInput
     /\ LocalKey \in DOMAIN last.event.message.psbt.inputs[1].partial_sigs
     /\ ~SignedByLocalKey(last.event.message.psbt))
        => /\ result.tag = "Err"
           /\ result.err = InvalidSig
           /\ identity = pre.identity
           /\ effects = <<>>

\* the stage after s in the order of the workflow
Successor(s) ==
    CASE s = "Proposed" -> "Accepted"
      [] s = "Accepted" -> "Signing"
      [] s = "Signing" -> "Funding"
      [] s = "Funding" -> "Signed"
      [] s = "Signed" -> "Funded"
      [] s = "Funded" -> "Locked"
      [] s = "Locked" -> NoStage

\* C18: a successful next() moves the stage to its immediate successor, and
\* next() returns None only in Locked.
C18_StageAdvancesByOne ==
    last.call = "next" =>
        /\ result.tag = "Ok"
              => (pre.stage # "Locked" /\ result.state = Successor(pre.stage)
                  /\ stage = Successor(pre.stage))
        /\ result.tag = "None" => pre.stage = "Locked"

C18_Witness ==
    /\ LastNextIn("Signed")
    /\ result.tag = "Ok"
    /\ stage = "Funded"

\* C19: a successful transition sends exactly one control-bus message, the
\* one of its stage: construct_funding to the broker from Proposed, sign of
\* the refund PSBT to the signer from Accepted, hello to the broker from
\* Signing, publish_funding to the broker from Funding, and from Signed
\* track to the chain watcher with the funding_txid of funding_created.
C19_ControlMessagesOfStage ==
    (last.call = "next" /\ result.tag = "Ok") =>
        /\ OutputsKept
        /\ Len(NewCtl) = 1
        /\ LET c == NewCtl[1] IN
           CASE pre.stage = "Proposed" ->
                    c.dest = "LnpBroker" /\ c.msg.kind = "ConstructFunding"
             [] pre.stage = "Accepted" ->
                    /\ c.dest = "Signer" /\ c.msg.kind = "Sign"
                    /\ c.msg.psbt.spends = <<channel.funding.txid, channel.funding.output>>
             [] pre.stage = "Signing" ->
                    c.dest = "LnpBroker" /\ c.msg.kind = "Hello"
             [] pre.stage = "Funding" ->
                    c.dest = "LnpBroker" /\ c.msg.kind = "PublishFunding"
             [] pre.stage = "Signed" ->
                    /\ c.dest = "Chain" /\ c.msg.kind = "Track"
                    /\ FundingCreatedSent # {}
                    /\ \A m \in FundingCreatedSent : c.msg.txid = m.funding_txid
             [] OTHER -> FALSE

C19_Witness ==
    /\ LastNextIn("Signed")
    /\ result.tag = "Ok"
    /\ NewCtl[1].msg.kind = "Track"
    /\ \E m \in FundingCreatedSent : NewCtl[1].msg.txid = m.funding_txid

\* C20: in Proposed, Accepted, Signing, Funding and Signed, a next() that
\* fails with UnexpectedMessage has sent nothing on either bus and has left
\* the identity as it was.
C20_UnexpectedMessageHasNoEffect ==
    (/\ last.call = "next"
     /\ pre.stage \in {"Proposed", "Accepted", "Signing", "Funding", "Signed"}
     /\ result.tag = "Err"
     /\ result.err.kind = "UnexpectedMessage")
        => /\ effects = <<>>
           /\ ctlOut = pre.ctlOut
           /\ peerOut = pre.peerOut
           /\ identity = pre.identity

C20_Witness ==
    /\ LastNextIn("Signed")
    /\ last.event.message.kind = "Timeout"
    /\ result.tag = "Err"
    /\ result.err.kind = "UnexpectedMessage"
    /\ effects = <<>>

=============================================================================
